---- MODULE Spec2Model ----
(***************************************************************************)
(* MindScan persistence layer (app/db.py) and signal fusion                *)
(* (app/mindscan_app.py, combine_modalities).                              *)
(*                                                                         *)
(* Values.  A value held in a column, bound to a statement parameter or    *)
(* returned by a Python function is a sequence: SQL NULL / Python None is  *)
(* the empty sequence, an integer n is <<n>>, a TEXT is the sequence of    *)
(* its characters.  A row is a function from column names to values, a     *)
(* relation is [cols, rows] with cols in PRAGMA table_info order and rows  *)
(* in rowid order; a relation that does not exist has no columns.          *)
(***************************************************************************)
EXTENDS Integers, Sequences, FiniteSets, TLC

VARIABLES db, now, last, calls

vars == <<db, now, last, calls>>

----------------------------------------------------------------------------
(* Bounds *)

MaxLegacyRows == 2      \* rows of the entries relation found at start-up
MaxEntries == 3         \* save_entry is not called beyond this many rows
MaxUsers == 2           \* add_user is not called beyond this many rows
MaxDay == 1             \* the clock stops at this day
MaxDays == 2            \* largest days argument of fetch_entries
MaxCalls == 2           \* calls issued in one behaviour of the call machine

----------------------------------------------------------------------------
(* Values *)

Null == <<>>

Range(s) == {s[i] : i \in 1..Len(s)}

Max(S) == IF S = {} THEN 0 ELSE CHOOSE m \in S : \A x \in S : x <= m

\* SQL "a = b": never true when either side is NULL.
SqlEq(a, b) == a # Null /\ b # Null /\ a = b

\* TEXT comparison of SQLite's BINARY collation: the first differing
\* character decides, otherwise the shorter string is the smaller.
RECURSIVE StrLess(_, _)
StrLess(a, b) ==
    IF b = <<>> THEN FALSE
    ELSE IF a = <<>> THEN TRUE
    ELSE IF a[1] # b[1] THEN a[1] < b[1]
    ELSE StrLess(Tail(a), Tail(b))

\* SQL "a >= b" on TEXT: never true when either side is NULL.
SqlGe(a, b) == a # Null /\ b # Null /\ ~StrLess(a, b)

----------------------------------------------------------------------------
(* Schema *)

ENTRIES_COLUMNS == <<"id", "user_id", "text", "sentiment", "emotion", "created_at">>

\* Columns of the entries relation that get_db itself creates.
GetDbEntriesColumns == <<"id", "text", "sentiment", "emotion", "created_at">>

UsersColumns == <<"id", "username", "password">>

\* Every column name the model uses, in the order Python's sorted() gives.
SortedNames == <<"created_at", "emotion", "id", "mood", "sentiment", "text", "user_id">>

NoTable == [cols |-> <<>>, rows |-> <<>>]

HasTable(t) == t.cols # <<>>

table_columns(d, table) == d[table].cols

InCols(c, cols) == \E i \in 1..Len(cols) : cols[i] = c

sorted(cols) == SelectSeq(SortedNames, LAMBDA c : InCols(c, cols))

needs_rebuild_strict(cols) ==
    \/ InCols("mood", cols)
    \/ ~InCols("user_id", cols)
    \/ cols # ENTRIES_COLUMNS

needs_rebuild(cols) ==
    \/ InCols("mood", cols)
    \/ ~InCols("user_id", cols)
    \/ sorted(cols) # sorted(ENTRIES_COLUMNS)

CreateUsers(d) ==
    IF HasTable(d.users) THEN d
    ELSE [d EXCEPT !.users = [cols |-> UsersColumns, rows |-> <<>>]]

CreateEntries(d) ==
    IF HasTable(d.entries) THEN d
    ELSE [d EXCEPT !.entries = [cols |-> GetDbEntriesColumns, rows |-> <<>>]]

CreateEntriesNew(d) ==
    IF HasTable(d.entries_new) THEN d
    ELSE [d EXCEPT !.entries_new = [cols |-> ENTRIES_COLUMNS, rows |-> <<>>]]

\* The value one select part yields for a source row.
SelectPartNullUserId(c, src_cols, r) ==
    IF c = "user_id" \/ ~InCols(c, src_cols) THEN Null ELSE r[c]

SelectPart(c, src_cols, r) == IF InCols(c, src_cols) THEN r[c] ELSE Null

IdsOf(rows) == {rows[i]["id"][1] : i \in 1..Len(rows)}

\* INTEGER PRIMARY KEY AUTOINCREMENT: a NULL id becomes one more than the
\* largest id the relation has held (no row is ever deleted from it).
AssignId(rows, id) == IF id = Null THEN <<Max(IdsOf(rows)) + 1>> ELSE id

\* INSERT INTO entries_new (...) SELECT ... FROM entries, row by row.
RECURSIVE InsertRows(_, _, _)
InsertRows(dst, src_rows, src_cols) ==
    IF src_rows = <<>> THEN dst
    ELSE LET r == Head(src_rows)
             n == [c \in Range(ENTRIES_COLUMNS) |-> SelectPart(c, src_cols, r)]
             m == [n EXCEPT !["id"] = AssignId(dst, n["id"])]
         IN InsertRows(Append(dst, m), Tail(src_rows), src_cols)

\* The statement fails when the target does not exist or an id would repeat.
InsertSelectFails(d, src_cols) ==
    \/ ~HasTable(d.entries_new)
    \/ ~HasTable(d.entries)
    \/ LET res == InsertRows(d.entries_new.rows, d.entries.rows, src_cols)
       IN Cardinality(IdsOf(res)) # Len(res)

InsertSelect(d, src_cols) ==
    [d EXCEPT !.entries_new.rows =
        InsertRows(d.entries_new.rows, d.entries.rows, src_cols)]

DropEntries(d) == [d EXCEPT !.entries = NoTable]

RenameEntriesNew(d) == [d EXCEPT !.entries = d.entries_new, !.entries_new = NoTable]

\* _migrate_entries_table run to completion on one connection.
migrate_entries_table(d) ==
    IF ~needs_rebuild(table_columns(d, "entries")) THEN d
    ELSE LET d1 == CreateEntriesNew(d)
             src_cols == table_columns(d1, "entries")
         IN RenameEntriesNew(DropEntries(InsertSelect(d1, src_cols)))

get_db(d) == migrate_entries_table(CreateEntries(CreateUsers(d)))

----------------------------------------------------------------------------
(* Clock.  A datetime is [day, us]: whole days since datetime.min and the  *)
(* microsecond part.                                                       *)

MinDay == 0

Times == [day : MinDay..MaxDay, us : 0..1]

\* datetime.isoformat(): the fraction is printed only when it is not zero.
isoformat(t) == IF t.us = 0 THEN <<t.day>> ELSE <<t.day, t.us>>

\* now - timedelta(days=days) raises OverflowError below datetime.min.
Overflows(t, days) == t.day - days < MinDay

minus_days(t, days) == [t EXCEPT !.day = @ - days]

TimeLeq(a, b) == a.day < b.day \/ (a.day = b.day /\ a.us <= b.us)

----------------------------------------------------------------------------
(* Account store *)

\* Stand-in for sha256(pw).hexdigest(): a deterministic digest of the
\* characters of pw.
RECURSIVE Digest(_, _)
Digest(h, pw) == IF pw = <<>> THEN h ELSE Digest((h * 31 + Head(pw)) % 257, Tail(pw))

hash(pw) == <<Digest(7, pw)>>

\* username TEXT UNIQUE: an insert of a username already present fails.
UniqueViolationNever(rows, username) == FALSE

UniqueViolation(rows, username) ==
    \E i \in 1..Len(rows) : SqlEq(rows[i]["username"], username)

NextId(rows) == <<Max(IdsOf(rows)) + 1>>

InsertUser(d, username, password) ==
    [d EXCEPT !.users.rows = Append(@,
        [id |-> NextId(@), username |-> username, password |-> hash(password)])]

add_user(d, username, password) ==
    LET conn == get_db(d)
    IN IF UniqueViolation(conn.users.rows, username)
       THEN [db |-> conn, ret |-> FALSE]
       ELSE [db |-> InsertUser(conn, username, password), ret |-> TRUE]

\* SELECT id, password FROM users WHERE username=?  then fetchone().
SelectUser(d, username) ==
    SelectSeq(d.users.rows, LAMBDA r : SqlEq(r["username"], username))

PasswordMatchesAlways(row, password) == TRUE

PasswordMatches(row, password) == row["password"] = hash(password)

check_user(d, username, password) ==
    LET conn == get_db(d)
        found == SelectUser(conn, username)
    IN [db |-> conn,
        ret |-> IF found # <<>> /\ PasswordMatches(found[1], password)
                THEN found[1]["id"] ELSE Null]

----------------------------------------------------------------------------
(* Entry store *)

InsertEntry(d, user_id, text, sentiment, emotion, t) ==
    [d EXCEPT !.entries.rows = Append(@,
        [id |-> NextId(@), user_id |-> user_id, text |-> text,
         sentiment |-> sentiment, emotion |-> emotion,
         created_at |-> isoformat(t)])]

save_entry(d, user_id, text, sentiment, emotion, t) ==
    InsertEntry(get_db(d), user_id, text, sentiment, emotion, t)

\* WHERE user_id = ? AND created_at >= ?
WhereStrictlyAfter(r, user_id, since) ==
    SqlEq(r["user_id"], user_id) /\ r["created_at"] # Null /\ StrLess(since, r["created_at"])

WhereNullMatches(r, user_id, since) ==
    r["user_id"] = user_id /\ SqlGe(r["created_at"], since)

Where(r, user_id, since) ==
    SqlEq(r["user_id"], user_id) /\ SqlGe(r["created_at"], since)

Matching(d, user_id, since) ==
    SelectSeq(d.entries.rows, LAMBDA r : Where(r, user_id, since))

Remove(seq, i) == SubSeq(seq, 1, i - 1) \o SubSeq(seq, i + 1, Len(seq))

\* ORDER BY created_at ASC: every arrangement of the rows in which
\* created_at never decreases (the order of equal keys is the engine's).
RECURSIVE OrderByCreatedAt(_)
OrderByCreatedAt(rows) ==
    IF rows = <<>> THEN {<<>>}
    ELSE UNION { {<<rows[i]>> \o rest : rest \in OrderByCreatedAt(Remove(rows, i))} :
                 i \in {i \in 1..Len(rows) :
                          \A j \in 1..Len(rows) :
                              ~StrLess(rows[j]["created_at"], rows[i]["created_at"])} }

Project(r) == <<r["created_at"], r["sentiment"], r["emotion"], r["text"]>>

----------------------------------------------------------------------------
(* Signal fuser.  Sentiments are given in tenths and returned in           *)
(* hundredths, so 0.7 * t + 0.3 * i is the integer 7 * t + 3 * i.          *)

IsNoneOrZero(x) == x = Null \/ x = <<0>>

IsNone(x) == x = Null

\* Python's "a or b" on an optional string: a unless it is None or "".
Or(a, b) == IF a # Null /\ a # <<"">> THEN a ELSE b

combine_modalities(text_sent, text_emo, img_sent, img_emo) ==
    IF IsNone(text_sent) /\ IsNone(img_sent) THEN <<0, <<"neutral">>>>
    ELSE IF IsNone(img_sent) THEN <<10 * text_sent[1], Or(text_emo, <<"neutral">>)>>
    ELSE IF IsNone(text_sent) THEN <<10 * img_sent[1], Or(img_emo, <<"neutral">>)>>
    ELSE <<7 * text_sent[1] + 3 * img_sent[1],
           Or(text_emo, Or(img_emo, <<"neutral">>))>>

----------------------------------------------------------------------------
(* Stores found at start-up *)

\* An entries relation left by get_db before per-user scoping, one that
\* still carries the mood column, one without an id column, the canonical
\* one, and the canonical columns in another order.
LegacyShapes ==
    { GetDbEntriesColumns,
      <<"id", "user_id", "text", "sentiment", "emotion", "created_at", "mood">>,
      <<"text", "mood", "created_at">>,
      <<"id", "text", "sentiment", "emotion", "created_at", "user_id">>,
      ENTRIES_COLUMNS }

LegacyValue(c, i, u, t) ==
    CASE c = "id" -> <<i>>
      [] c = "user_id" -> u
      [] c = "text" -> <<7>>
      [] c = "sentiment" -> <<1>>
      [] c = "emotion" -> <<5>>
      [] c = "created_at" -> t
      [] c = "mood" -> <<9>>

LegacyRow(cols) ==
    {[c \in Range(cols) |-> LegacyValue(c, i, u, t)] :
        i \in 1..(MaxLegacyRows + 1), u \in {Null, <<1>>}, t \in {<<0, 1>>, <<1>>}}

\* Rows in rowid order: the id column, when there is one, is the rowid.
LegacyRows(cols) ==
    UNION { {rows \in [1..n -> LegacyRow(cols)] :
                InCols("id", cols) =>
                    \A i \in 1..n : i < n => rows[i]["id"][1] < rows[i + 1]["id"][1]}
            : n \in 0..MaxLegacyRows }

EmptyUsers == [cols |-> UsersColumns, rows |-> <<>>]

EmptyEntriesNew == [cols |-> ENTRIES_COLUMNS, rows |-> <<>>]

NoFile == [users |-> NoTable, entries |-> NoTable, entries_new |-> NoTable]

\* No file yet, or a file with users and an entries relation of some shape,
\* with or without the empty entries_new an interrupted rebuild leaves.
InitialStores ==
    {NoFile}
    \cup
    UNION { {[users |-> EmptyUsers, entries |-> [cols |-> cols, rows |-> rows],
              entries_new |-> en] :
                rows \in LegacyRows(cols),
                en \in IF needs_rebuild(cols) THEN {NoTable, EmptyEntriesNew}
                       ELSE {NoTable}}
            : cols \in LegacyShapes }

StartTimes == {t \in Times : t.day = 1}

NoCall == [op |-> "none"]

NoTxn == [active |-> FALSE, d |-> NoFile]

PendingCall == [op |-> "none", pc |-> "pending", conn |-> "none", txn |-> NoTxn,
                src_cols |-> <<>>, days |-> 0, pre |-> NoFile]

IdleCalls == [k \in 1..MaxCalls |-> PendingCall]

----------------------------------------------------------------------------
(* Handlers run to completion *)

GetDb ==
    /\ db' = get_db(db)
    /\ last' = [op |-> "get_db", pre |-> db]
    /\ UNCHANGED <<now, calls>>

Usernames == {<<1>>, <<2>>}

Passwords == {<<1>>, <<2, 1>>, <<1, 2>>}

AddUser ==
    \E username \in Usernames, password \in Passwords :
        LET res == add_user(db, username, password)
        IN /\ Len(db.users.rows) < MaxUsers
           /\ db' = res.db
           /\ last' = [op |-> "add_user", pre |-> db, username |-> username,
                       password |-> password, ret |-> res.ret]
           /\ UNCHANGED <<now, calls>>

CheckUser ==
    \E username \in Usernames, password \in Passwords :
        LET res == check_user(db, username, password)
        IN /\ db' = res.db
           /\ last' = [op |-> "check_user", pre |-> db, username |-> username,
                       password |-> password, ret |-> res.ret]
           /\ UNCHANGED <<now, calls>>

UserIds == {<<1>>, <<2>>}

SaveEntry ==
    \E user_id \in UserIds :
        /\ Len(db.entries.rows) < MaxEntries
        /\ db' = save_entry(db, user_id, <<8>>, <<2>>, <<6>>, now)
        /\ last' = [op |-> "save_entry", user_id |-> user_id, at |-> now]
        /\ UNCHANGED <<now, calls>>

\* OverflowError is raised after get_db has run; otherwise the rows come
\* back in one of the orders ORDER BY allows.
FetchEntries ==
    \E user_id \in {<<1>>, Null}, days \in 0..MaxDays :
        LET conn == get_db(db)
        IN /\ db' = conn
           /\ IF Overflows(now, days)
              THEN last' = [op |-> "fetch_entries", user_id |-> user_id,
                            days |-> days, at |-> now, exc |-> "OverflowError",
                            matched |-> <<>>, ret |-> <<>>]
              ELSE LET rows == Matching(conn, user_id, isoformat(minus_days(now, days)))
                   IN \E ordered \in OrderByCreatedAt(rows) :
                        last' = [op |-> "fetch_entries", user_id |-> user_id,
                                 days |-> days, at |-> now, exc |-> "",
                                 matched |-> ordered,
                                 ret |-> [i \in 1..Len(ordered) |-> Project(ordered[i])]]
           /\ UNCHANGED <<now, calls>>

Tick ==
    /\ \E t \in Times : /\ TimeLeq(now, t)
                        /\ t # now
                        /\ now' = t
    /\ UNCHANGED <<db, last, calls>>

SentimentInputs == {Null, <<0 - 10>>, <<0>>, <<5>>}

EmotionInputs == {Null, <<"">>, <<"joy">>, <<"sad">>}

CombineModalities ==
    \E text_sent, img_sent \in SentimentInputs, text_emo, img_emo \in EmotionInputs :
        /\ last' = [op |-> "combine_modalities", text_sent |-> text_sent,
                    text_emo |-> text_emo, img_sent |-> img_sent, img_emo |-> img_emo,
                    ret |-> combine_modalities(text_sent, text_emo, img_sent, img_emo)]
        /\ UNCHANGED <<db, now, calls>>

InitStore ==
    /\ db \in InitialStores
    /\ now \in StartTimes
    /\ last = NoCall
    /\ calls = IdleCalls

\* Schema migrator: every start-up store, get_db called again and again.
InitMigrate == InitStore /\ now.us = 0

NextMigrate == GetDb

SpecMigrate == InitMigrate /\ [][NextMigrate]_vars

\* Account store over a migrated store.
InitAccounts ==
    /\ db = NoFile
    /\ now \in StartTimes /\ now.us = 0
    /\ last = NoCall
    /\ calls = IdleCalls

NextAccounts == AddUser \/ CheckUser

SpecAccounts == InitAccounts /\ [][NextAccounts]_vars

\* Entry store over the stores earlier versions of get_db leave.
InitEntries ==
    /\ InitStore
    /\ db.entries_new = NoTable
    /\ db.entries.cols \in {<<>>, GetDbEntriesColumns,
            <<"id", "user_id", "text", "sentiment", "emotion", "created_at", "mood">>}
    /\ Len(db.entries.rows) < MaxLegacyRows
    /\ \A i \in 1..Len(db.entries.rows) : db.entries.rows[i]["id"] = <<i>>

NextEntries == SaveEntry \/ FetchEntries \/ Tick

SpecEntries == InitEntries /\ [][NextEntries]_vars

\* Signal fuser.
NextFuse == CombineModalities

SpecFuse == InitAccounts /\ [][NextFuse]_vars

----------------------------------------------------------------------------
(* Schema migrator properties *)

CanonicalSet == Range(ENTRIES_COLUMNS)

IsCanonicalShape(cols) == Range(cols) = CanonicalSet

\* The last call was get_db and found a legacy entries relation.
Rebuilt ==
    /\ last.op = "get_db"
    /\ HasTable(last.pre.entries)
    /\ ~IsCanonicalShape(last.pre.entries.cols)

SameRowCount == Len(db.entries.rows) = Len(last.pre.entries.rows)

KeptColumns ==
    \A i \in 1..Len(last.pre.entries.rows) :
        \A c \in CanonicalSet \cap Range(last.pre.entries.cols) :
            db.entries.rows[i][c] = last.pre.entries.rows[i][c]

\* C1 as stated: after the rebuild the relation has the canonical columns,
\* as many rows as before, every row's value in each column the legacy
\* shape shares with the canonical one, and NULL in every canonical column
\* the legacy shape lacks.
C1_MigrationPreservesRows ==
    Rebuilt =>
        /\ db.entries.cols = ENTRIES_COLUMNS
        /\ SameRowCount
        /\ KeptColumns
        /\ \A i \in 1..Len(db.entries.rows) :
              \A c \in CanonicalSet \ Range(last.pre.entries.cols) :
                  db.entries.rows[i][c] = Null

\* C1 amended: as above, except that a missing id column is not left NULL:
\* the rows get the ids 1..n in rowid order.
C1_MigrationPreservesRowsButId ==
    Rebuilt =>
        /\ db.entries.cols = ENTRIES_COLUMNS
        /\ SameRowCount
        /\ KeptColumns
        /\ \A i \in 1..Len(db.entries.rows) :
              \A c \in CanonicalSet \ Range(last.pre.entries.cols) :
                  db.entries.rows[i][c] = IF c = "id" THEN <<i>> ELSE Null

C1_Witness ==
    /\ Rebuilt
    /\ ~InCols("id", last.pre.entries.cols)
    /\ Len(last.pre.entries.rows) > 1
    /\ db.entries.rows[2]["id"] = <<2>>
    /\ db.entries.rows[2]["user_id"] = Null

\* C2: get_db on a store whose entries relation has the canonical column
\* set, in any order, changes nothing and creates no entries_new; and every
\* run of get_db leaves such a store, so a second run repeats nothing.
C2_MigratorIdempotent ==
    last.op = "get_db" =>
        /\ IsCanonicalShape(db.entries.cols)
        /\ ~HasTable(db.entries_new)
        /\ (HasTable(last.pre.entries) /\ IsCanonicalShape(last.pre.entries.cols)
              => db = last.pre)

C2_Witness ==
    /\ last.op = "get_db"
    /\ IsCanonicalShape(last.pre.entries.cols)
    /\ last.pre.entries.cols # ENTRIES_COLUMNS
    /\ last.pre.entries.rows # <<>>
    /\ db = last.pre

----------------------------------------------------------------------------
(* Account store properties *)

HasUser(d, username) ==
    \E i \in 1..Len(d.users.rows) : d.users.rows[i]["username"] = username

\* C4: usernames are never repeated; add_user returns true exactly when
\* the username was not there, adding one row, and otherwise returns false
\* and leaves every row, the stored hash included, as it was.
C4_UsernameUnique ==
    /\ \A i, j \in 1..Len(db.users.rows) :
          i # j => db.users.rows[i]["username"] # db.users.rows[j]["username"]
    /\ last.op = "add_user" =>
          /\ last.ret = ~HasUser(last.pre, last.username)
          /\ last.ret =>
                /\ Len(db.users.rows) = Len(last.pre.users.rows) + 1
                /\ SubSeq(db.users.rows, 1, Len(last.pre.users.rows)) = last.pre.users.rows
                /\ db.users.rows[Len(db.users.rows)]["username"] = last.username
          /\ ~last.ret => db.users.rows = last.pre.users.rows

C4_Witness ==
    /\ last.op = "add_user"
    /\ last.ret = FALSE
    /\ \E i \in 1..Len(db.users.rows) :
          /\ db.users.rows[i]["username"] = last.username
          /\ db.users.rows[i]["password"] # hash(last.password)

\* C5: check_user returns the id of the user with that username when the
\* digest of the supplied password is the stored one, and None in every
\* other case; it leaves the users rows alone.
C5_CheckUser ==
    last.op = "check_user" =>
        /\ db.users.rows = last.pre.users.rows
        /\ \A i \in 1..Len(db.users.rows) :
              (/\ db.users.rows[i]["username"] = last.username
               /\ db.users.rows[i]["password"] = hash(last.password))
              => last.ret = db.users.rows[i]["id"]
        /\ (~\E i \in 1..Len(db.users.rows) :
               /\ db.users.rows[i]["username"] = last.username
               /\ db.users.rows[i]["password"] = hash(last.password))
              => last.ret = Null

C5_Witness ==
    /\ last.op = "check_user"
    /\ HasUser(db, last.username)
    /\ last.ret = Null
    /\ \E i \in 1..Len(db.users.rows) :
          /\ db.users.rows[i]["username"] # last.username
          /\ db.users.rows[i]["password"] = hash(last.password)

----------------------------------------------------------------------------
(* Entry store properties *)

\* The datetime an isoformat string denotes.
Decode(s) == [day |-> s[1], us |-> IF Len(s) > 1 THEN s[2] ELSE 0]

Fetched == last.op = "fetch_entries"

InWindow(r) ==
    /\ r["user_id"] # Null
    /\ r["user_id"] = last.user_id
    /\ r["created_at"] # Null
    /\ TimeLeq(minus_days(last.at, last.days), Decode(r["created_at"]))

Count(seq, v) == Cardinality({i \in 1..Len(seq) : seq[i] = v})

FetchCorrect ==
    LET expected == SelectSeq(db.entries.rows, InWindow)
        tuples == [i \in 1..Len(expected) |-> Project(expected[i])]
    IN /\ last.exc = ""
       /\ Len(last.ret) = Len(tuples)
       /\ \A v \in Range(tuples) \cup Range(last.ret) : Count(last.ret, v) = Count(tuples, v)
       /\ \A i, j \in 1..Len(last.ret) :
             i < j => TimeLeq(Decode(last.ret[i][1]), Decode(last.ret[j][1]))

\* C6 as stated: for every days, fetch_entries returns without error the
\* rows of the queried user created at or after now - days, oldest first.
C6_FetchWindow == Fetched => FetchCorrect

\* C6 amended: so it does whenever now - days is a datetime; otherwise the
\* call raises OverflowError.
C6_FetchWindowInRange ==
    Fetched =>
        IF last.at.day - last.days >= MinDay THEN FetchCorrect
        ELSE last.exc = "OverflowError"

C6_Witness ==
    /\ Fetched
    /\ last.exc = ""
    /\ Len(last.ret) > 1
    /\ \E i \in 1..Len(last.ret) : last.ret[i][1] = isoformat(minus_days(last.at, last.days))
    /\ \E i \in 1..Len(db.entries.rows) :
          /\ db.entries.rows[i]["user_id"] \notin {Null, last.user_id}
          /\ SqlGe(db.entries.rows[i]["created_at"], isoformat(minus_days(last.at, last.days)))

\* C7: no row fetch_entries selects has a NULL user_id, whatever user_id
\* is asked for, NULL included.
C7_NullRowsInvisible ==
    Fetched => \A i \in 1..Len(last.matched) : last.matched[i]["user_id"] # Null

C7_Witness ==
    /\ Fetched
    /\ last.exc = ""
    /\ last.user_id = Null
    /\ last.ret = <<>>
    /\ \E i \in 1..Len(db.entries.rows) :
          /\ db.entries.rows[i]["user_id"] = Null
          /\ SqlGe(db.entries.rows[i]["created_at"], isoformat(minus_days(last.at, last.days)))

----------------------------------------------------------------------------
(* Signal fuser properties *)

Present(x) == x # Null

NonEmpty(e) == e # Null /\ e # <<"">>

Neutral == <<"neutral">>

----------------------------------------------------------------------------
(* Calls, statement by statement.  Each call owns the connection that its  *)
(* get_db opens.  db is the committed content of the file; a connection    *)
(* with an open transaction works on its own copy, which commit() writes   *)
(* back and a rollback (close, finalisation, process exit) discards.       *)
(* SQLite lets one connection at a time hold a write transaction.          *)

Finished(k) == calls[k].pc \in {"returned", "raised", "killed"}

View(k) == IF calls[k].txn.active THEN calls[k].txn.d ELSE db

Locked(k) == \E j \in 1..MaxCalls : j # k /\ calls[j].txn.active

\* sqlite3's implicit transaction control: the module issues BEGIN before
\* an INSERT, and before no other statement this program executes.
OpensTransactionNever(pc) == FALSE

OpensTransaction(pc) == pc \in {"insert", "au_insert", "se_insert"}

\* Where a call continues once get_db has returned its connection.
AfterGetDb(op) ==
    CASE op = "get_db" -> "returned"
      [] op = "add_user" -> "au_insert"
      [] op = "check_user" -> "cu_select"
      [] op = "save_entry" -> "se_insert"
      [] op = "fetch_entries" -> "fe_since"

Goto(k, pc) == calls' = [calls EXCEPT ![k].pc = pc]

\* A statement that writes new as the content it leaves, then continues at
\* next: inside the connection's transaction, or opening one, or committed
\* at once when the connection is in autocommit mode.
Write(k, new, next) ==
    /\ calls[k].txn.active \/ ~Locked(k)
    /\ IF calls[k].txn.active \/ OpensTransaction(calls[k].pc)
       THEN /\ calls' = [calls EXCEPT ![k].txn = [active |-> TRUE, d |-> new],
                                      ![k].pc = next]
            /\ UNCHANGED db
       ELSE /\ db' = new
            /\ Goto(k, next)

\* CREATE TABLE IF NOT EXISTS on a relation that exists writes nothing.
CreateIfNotExists(k, table, new, next) ==
    IF HasTable(View(k)[table])
    THEN Goto(k, next) /\ UNCHANGED db
    ELSE Write(k, new, next)

Ops == {"get_db", "add_user", "check_user", "save_entry", "fetch_entries"}

\* A caller invokes an operation; calls follow one another.
Start(k) ==
    /\ calls[k].pc = "pending"
    /\ \A j \in 1..(k - 1) : Finished(j)
    /\ \E op \in Ops, days \in {0, MaxDays} :
          /\ op # "fetch_entries" => days = 0
          /\ op = "save_entry" => Len(db.entries.rows) < MaxEntries
          /\ calls' = [calls EXCEPT ![k] = [PendingCall EXCEPT !.op = op, !.pc = "connect",
                                                               !.days = days, !.pre = db]]
    /\ UNCHANGED <<db, now, last>>

Connect(k) ==
    /\ calls[k].pc = "connect"
    /\ calls' = [calls EXCEPT ![k].conn = "open", ![k].pc = "create_users"]
    /\ UNCHANGED <<db, now, last>>

CreateUsersStmt(k) ==
    /\ calls[k].pc = "create_users"
    /\ CreateIfNotExists(k, "users", CreateUsers(View(k)), "create_entries")
    /\ UNCHANGED <<now, last>>

CreateEntriesStmt(k) ==
    /\ calls[k].pc = "create_entries"
    /\ CreateIfNotExists(k, "entries", CreateEntries(View(k)), "detect")
    /\ UNCHANGED <<now, last>>

Detect(k) ==
    /\ calls[k].pc = "detect"
    /\ IF needs_rebuild(table_columns(View(k), "entries"))
       THEN Goto(k, "create_new")
       ELSE Goto(k, AfterGetDb(calls[k].op))
    /\ UNCHANGED <<db, now, last>>

CreateEntriesNewStmt(k) ==
    /\ calls[k].pc = "create_new"
    /\ CreateIfNotExists(k, "entries_new", CreateEntriesNew(View(k)), "src_cols")
    /\ UNCHANGED <<now, last>>

ReadSrcCols(k) ==
    /\ calls[k].pc = "src_cols"
    /\ calls' = [calls EXCEPT ![k].src_cols = table_columns(View(k), "entries"),
                              ![k].pc = "insert"]
    /\ UNCHANGED <<db, now, last>>

InsertSelectStmt(k) ==
    /\ calls[k].pc = "insert"
    /\ ~InsertSelectFails(View(k), calls[k].src_cols)
    /\ Write(k, InsertSelect(View(k), calls[k].src_cols), "drop")
    /\ UNCHANGED <<now, last>>

DropFails(d) == ~HasTable(d.entries)

DropStmt(k) ==
    /\ calls[k].pc = "drop"
    /\ ~DropFails(View(k))
    /\ Write(k, DropEntries(View(k)), "rename")
    /\ UNCHANGED <<now, last>>

RenameFails(d) == HasTable(d.entries) \/ ~HasTable(d.entries_new)

RenameStmt(k) ==
    /\ calls[k].pc = "rename"
    /\ ~RenameFails(View(k))
    /\ Write(k, RenameEntriesNew(View(k)), "commit")
    /\ UNCHANGED <<now, last>>

\* conn.commit(): writes the transaction back, if one is open.
CommitTo(k, next) ==
    /\ db' = View(k)
    /\ calls' = [calls EXCEPT ![k].txn = NoTxn, ![k].pc = next]

Commit(k) ==
    /\ calls[k].pc = "commit"
    /\ CommitTo(k, AfterGetDb(calls[k].op))
    /\ UNCHANGED <<now, last>>

\* conn.close(): an open transaction is rolled back.
CloseTo(k, next) ==
    calls' = [calls EXCEPT ![k].conn = "closed", ![k].txn = NoTxn, ![k].pc = next]

\* add_user: the INSERT takes the write lock and then meets the UNIQUE
\* constraint; IntegrityError is caught and the finally clause closes.
AddUserInsert(k) ==
    /\ calls[k].pc = "au_insert"
    /\ ~Locked(k)
    /\ IF UniqueViolation(View(k).users.rows, <<1>>)
       THEN Goto(k, "au_close") /\ UNCHANGED db
       ELSE Write(k, InsertUser(View(k), <<1>>, <<1>>), "au_commit")
    /\ UNCHANGED <<now, last>>

AddUserCommit(k) ==
    /\ calls[k].pc = "au_commit"
    /\ CommitTo(k, "au_close")
    /\ UNCHANGED <<now, last>>

AddUserClose(k) ==
    /\ calls[k].pc = "au_close"
    /\ CloseTo(k, "returned")
    /\ UNCHANGED <<db, now, last>>

CheckUserSelect(k) ==
    /\ calls[k].pc = "cu_select"
    /\ Goto(k, "cu_close")
    /\ UNCHANGED <<db, now, last>>

CheckUserClose(k) ==
    /\ calls[k].pc = "cu_close"
    /\ CloseTo(k, "returned")
    /\ UNCHANGED <<db, now, last>>

SaveEntryInsert(k) ==
    /\ calls[k].pc = "se_insert"
    /\ Write(k, InsertEntry(View(k), <<1>>, <<8>>, <<2>>, <<6>>, now), "se_commit")
    /\ UNCHANGED <<now, last>>

SaveEntryCommit(k) ==
    /\ calls[k].pc = "se_commit"
    /\ CommitTo(k, "se_close")
    /\ UNCHANGED <<now, last>>

SaveEntryClose(k) ==
    /\ calls[k].pc = "se_close"
    /\ CloseTo(k, "returned")
    /\ UNCHANGED <<db, now, last>>

\* fetch_entries computes since before it executes anything: OverflowError
\* leaves the function at once.
FetchSince(k) ==
    /\ calls[k].pc = "fe_since"
    /\ IF Overflows(now, calls[k].days) THEN Goto(k, "raised") ELSE Goto(k, "fe_select")
    /\ UNCHANGED <<db, now, last>>

FetchSelect(k) ==
    /\ calls[k].pc = "fe_select"
    /\ Goto(k, "fe_close")
    /\ UNCHANGED <<db, now, last>>

FetchClose(k) ==
    /\ calls[k].pc = "fe_close"
    /\ CloseTo(k, "returned")
    /\ UNCHANGED <<db, now, last>>

\* The statement the call is about to execute cannot run on what the
\* connection sees (no such table, table already exists, UNIQUE constraint
\* failed): sqlite3 raises and get_db has no handler.
StatementError(k) ==
    /\ \/ calls[k].pc = "insert" /\ InsertSelectFails(View(k), calls[k].src_cols)
       \/ calls[k].pc = "drop" /\ DropFails(View(k))
       \/ calls[k].pc = "rename" /\ RenameFails(View(k))
    /\ Goto(k, "raised")
    /\ UNCHANGED <<db, now, last>>

WritesAt(k) ==
    \/ calls[k].pc = "create_users" /\ ~HasTable(View(k).users)
    \/ calls[k].pc = "create_entries" /\ ~HasTable(View(k).entries)
    \/ calls[k].pc = "create_new" /\ ~HasTable(View(k).entries_new)
    \/ calls[k].pc \in {"insert", "se_insert", "au_insert"}

\* Another connection holds the write lock for longer than the busy
\* timeout: "database is locked".  add_user's finally clause closes.
LockTimeout(k) ==
    /\ WritesAt(k)
    /\ ~calls[k].txn.active
    /\ Locked(k)
    /\ IF calls[k].pc = "au_insert" THEN CloseTo(k, "raised") ELSE Goto(k, "raised")
    /\ UNCHANGED <<db, now, last>>

StatementPcs ==
    {"create_users", "create_entries", "detect", "create_new", "src_cols", "insert",
     "drop", "rename", "commit", "au_insert", "au_commit", "cu_select", "se_insert",
     "se_commit", "fe_select"}

\* The environment fails a statement (disk full, I/O error).  Only
\* add_user has a finally clause; everywhere else the exception leaves the
\* function with the connection as it is.
Fault(k) ==
    /\ calls[k].pc \in StatementPcs
    /\ IF calls[k].pc \in {"au_insert", "au_commit"}
       THEN CloseTo(k, "raised")
       ELSE Goto(k, "raised")
    /\ UNCHANGED <<db, now, last>>

\* The interpreter finalises a connection nobody refers to any more.
Finalize(k) ==
    /\ calls[k].pc = "raised"
    /\ calls[k].conn = "open"
    /\ calls' = [calls EXCEPT ![k].conn = "closed", ![k].txn = NoTxn]
    /\ UNCHANGED <<db, now, last>>

\* The process stops: every connection goes, open transactions with it.
Crash ==
    /\ \E k \in 1..MaxCalls : calls[k].pc # "pending" /\ ~Finished(k)
    /\ calls' = [k \in 1..MaxCalls |->
                    IF calls[k].pc = "pending" THEN calls[k]
                    ELSE [calls[k] EXCEPT !.pc = IF Finished(k) THEN @ ELSE "killed",
                                          !.conn = IF @ = "open" THEN "closed" ELSE @,
                                          !.txn = NoTxn]]
    /\ UNCHANGED <<db, now, last>>

GetDbStep(k) ==
    \/ Connect(k) \/ CreateUsersStmt(k) \/ CreateEntriesStmt(k) \/ Detect(k)
    \/ CreateEntriesNewStmt(k) \/ ReadSrcCols(k) \/ InsertSelectStmt(k)
    \/ DropStmt(k) \/ RenameStmt(k) \/ Commit(k)

OperationStep(k) ==
    \/ AddUserInsert(k) \/ AddUserCommit(k) \/ AddUserClose(k)
    \/ CheckUserSelect(k) \/ CheckUserClose(k)
    \/ SaveEntryInsert(k) \/ SaveEntryCommit(k) \/ SaveEntryClose(k)
    \/ FetchSince(k) \/ FetchSelect(k) \/ FetchClose(k)

\* Stores the call machine starts from: no file, or rows with ids 1..n.
MachineStores ==
    {d \in InitialStores :
        /\ ~HasTable(d.entries_new)
        /\ d.entries.cols \in {<<>>, GetDbEntriesColumns, <<"text", "mood", "created_at">>,
              <<"id", "user_id", "text", "sentiment", "emotion", "created_at", "mood">>}
        /\ \A i \in 1..Len(d.entries.rows) :
              /\ d.entries.rows[i]["created_at"] = <<1>>
              /\ InCols("id", d.entries.cols) => d.entries.rows[i]["id"] = <<i>>}

InitMachine ==
    /\ db \in MachineStores
    /\ now = [day |-> 1, us |-> 0]
    /\ last = NoCall

\* One caller after another, with failing statements and process stops.
InitFail ==
    /\ InitMachine
    /\ db.entries.cols \in {<<>>, GetDbEntriesColumns}
    /\ calls = IdleCalls

NextFail ==
    \/ \E k \in 1..MaxCalls :
          Start(k) \/ GetDbStep(k) \/ OperationStep(k) \/ LockTimeout(k)
          \/ Fault(k) \/ Finalize(k)
    \/ Crash

SpecFail == InitFail /\ [][NextFail]_vars

\* Two callers inside get_db at once, the engine's locking between them.
Callers == {1, 2}

InitConc ==
    /\ InitMachine
    /\ HasTable(db.entries)
    /\ calls = [k \in 1..MaxCalls |->
                  IF k \in Callers
                  THEN [PendingCall EXCEPT !.op = "get_db", !.pc = "connect", !.pre = db]
                  ELSE PendingCall]

NextConc ==
    \E k \in Callers :
        GetDbStep(k) \/ StatementError(k) \/ LockTimeout(k) \/ Finalize(k)

SpecConc == InitConc /\ [][NextConc]_vars

SpecConcFair == SpecConc /\ WF_vars(NextConc)

----------------------------------------------------------------------------
(* Properties of the call machine *)

Latest(k) == \A j \in (k + 1)..MaxCalls : calls[j].pc = "pending"

NoOpenTransaction == \A k \in 1..MaxCalls : ~calls[k].txn.active

\* The entries relation d holds is the rebuilt form of orig.
MigratedFrom(d, orig) ==
    /\ d.entries.cols = ENTRIES_COLUMNS
    /\ Len(d.entries.rows) = Len(orig.rows)
    /\ Cardinality(IdsOf(d.entries.rows)) = Len(d.entries.rows)
    /\ \A i \in 1..Len(orig.rows) :
          \A c \in CanonicalSet \cap Range(orig.cols) :
              d.entries.rows[i][c] = orig.rows[i][c]

\* C3: when a get_db call that had a legacy relation to rebuild has raised
\* or was cut short by the process stopping, the file holds the original
\* entries relation or the rebuilt one, and no entries_new beside it; a
\* get_db call that returned has left the rebuilt relation.
C3_AllOrNothing ==
    \A k \in 1..MaxCalls :
        (/\ calls[k].op = "get_db"
         /\ Latest(k)
         /\ NoOpenTransaction
         /\ HasTable(calls[k].pre.entries)
         /\ ~IsCanonicalShape(calls[k].pre.entries.cols))
        => /\ calls[k].pc \in {"raised", "killed"} =>
                 /\ db.entries = calls[k].pre.entries
                       \/ MigratedFrom(db, calls[k].pre.entries)
                 /\ ~HasTable(db.entries_new)
           /\ calls[k].pc = "returned" =>
                 /\ MigratedFrom(db, calls[k].pre.entries)
                 /\ ~HasTable(db.entries_new)

\* C9: a finished call of add_user, check_user, save_entry or
\* fetch_entries, returned or raised, has no open connection.
C9_ConnectionsReleased ==
    \A k \in 1..MaxCalls :
        (calls[k].op \in Ops \ {"get_db"} /\ calls[k].pc \in {"returned", "raised"})
        => calls[k].conn # "open"

Done == \A k \in Callers : calls[k].pc \in {"returned", "raised"}

FinalStoreMigrated ==
    Done => /\ MigratedFrom(db, calls[1].pre.entries)
            /\ ~HasTable(db.entries_new)
            /\ NoOpenTransaction

\* C10: two concurrent get_db calls on a legacy store both return or raise,
\* and then the store has one canonical entries relation with every
\* original row once and no entries_new.
C10_ConcurrentMigration == []FinalStoreMigrated /\ <>Done

C10_Witness ==
    /\ Done
    /\ calls[1].pc = "raised"
    /\ calls[2].pc = "returned"
    /\ ~InCols("id", calls[1].pre.entries.cols)
    /\ Len(db.entries.rows) > 1
    /\ db.entries.rows[2]["id"] = <<2>>

====
